---- MODULE Spec2Model ----
(***************************************************************************)
(* Model of widget/src/tooltip.rs: the hover-timing state machine of       *)
(* Tooltip::update / Tooltip::overlay and the placement algorithm of       *)
(* Overlay::layout.                                                        *)
(*                                                                         *)
(* Instants and durations are natural numbers of clock ticks.  Lengths and *)
(* coordinates are f32 values that are multiples of half a pixel; the      *)
(* integer n stands for n/2 pixels, so that the "/ 2.0" of the centring    *)
(* formulas is exact on whole-pixel inputs.  Option<T> is a sequence of    *)
(* length 0 (None) or 1 (Some).                                            *)
(***************************************************************************)
EXTENDS Integers, Sequences, FiniteSets, TLC

\* ------------------------------------------------------------------------
\* Bounds of the model
\* ------------------------------------------------------------------------
MaxTime == 3

MaxDelay == 1

MaxSkew == 1

MaxEpisodes == 2

\* ------------------------------------------------------------------------
\* Values
\* ------------------------------------------------------------------------
None == << >>

Some(v) == << v >>

Px(n) == 2 * n

Min(a, b) == IF a < b THEN a ELSE b

Max(a, b) == IF a < b THEN b ELSE a

Point(px, py) == [x |-> px, y |-> py]

Vector(vx, vy) == [x |-> vx, y |-> vy]

Size(w, h) == [width |-> w, height |-> h]

Rectangle(rx, ry, w, h) == [x |-> rx, y |-> ry, width |-> w, height |-> h]

Position == {"Top", "Bottom", "Left", "Right", "FollowCursor"}

Idle == [tag |-> "Idle"]

Hovered(p, t) == [tag |-> "Hovered", cursor_position |-> p, at |-> t]

\* The calls update makes on the shell, and its call on the content element.
InvalidateLayout == [call |-> "invalidate_layout"]

RequestRedraw == [call |-> "request_redraw"]

RequestRedrawAt(i) == [call |-> "request_redraw_at", at |-> i]

ContentUpdate == [call |-> "content.update"]

VARIABLES
    clock,        \* the monotonic clock read by Instant::now()
    tooltip,      \* the Tooltip's configuration fields
    scene,        \* geometry handed in by the host: layout, translation, viewport, measure
    state,        \* tree.state: State
    calls,        \* the calls made by the last update, in order
    pending,      \* redraw requests the host has not yet honoured
    overlay_out,  \* what overlay() returned and when, if called since the last update
    node,         \* what Overlay::layout returned for it
    renode,       \* the node after the snapping step is applied once more
    last,         \* the inputs of the last update
    hover,        \* observation history: start of the current run of hovering updates,
                  \* and the `at` of the state the last exit left
    frames,       \* the placements of the last two laid out frames of this hover
    pc            \* the host's position in a pass

vars == << clock, tooltip, scene, state, calls, pending, overlay_out, node,
           renode, last, hover, frames, pc >>

\* ------------------------------------------------------------------------
\* Tooltip::update
\* ------------------------------------------------------------------------

\* The points cursor.position_over(layout.bounds()) can return: whole-pixel
\* points inside the bounds of the content.
PointsOver(bounds) ==
    { Point(px, py) :
        px \in { bounds.x + Px(i) : i \in 0 .. (bounds.width \div 2) - 1 },
        py \in { bounds.y + Px(j) : j \in 0 .. (bounds.height \div 2) - 1 } }

\* at.elapsed(), for a clock read of t.
Elapsed(at, t) == t - at

\* The arms of the match of update.  Each gives the new state, the calls
\* made on the shell in order and the value of the last clock read made.
\* now, e1 and e2 are the three successive reads of the clock:
\* `Instant::now()` at the top, `at.elapsed()` in the guard of the third arm
\* and `at.elapsed()` in its body.

\* SourceHovered, with the redraw requested at once instead of at the
\* deadline.
SourceHoveredRedrawsNow(self, cursor_position, now) ==
    [ state |-> Hovered(cursor_position, now),
      calls |-> << InvalidateLayout, RequestRedraw >>,
      clock |-> now ]

\* Tooltip source was hovered.
SourceHovered(self, cursor_position, now) ==
    [ state |-> Hovered(cursor_position, now),
      calls |-> << InvalidateLayout, RequestRedrawAt(now + self.delay) >>,
      clock |-> now ]

\* SourceUnhovered, without the assignment of State::Idle.
SourceUnhoveredKeepsState(st, now) ==
    [ state |-> st,
      calls |-> << InvalidateLayout, RequestRedraw >>,
      clock |-> now ]

\* SourceUnhovered, without the request of a redraw.
SourceUnhoveredNoRedraw(st, now) ==
    [ state |-> Idle,
      calls |-> << InvalidateLayout >>,
      clock |-> now ]

\* Tooltip source is no longer hovered.
SourceUnhovered(st, now) ==
    [ state |-> Idle,
      calls |-> << InvalidateLayout, RequestRedraw >>,
      clock |-> now ]

\* NotLongEnough, without the assignment of the new cursor position.
NotLongEnoughStale(self, st, cursor_position, now, e2) ==
    [ state |-> st,
      calls |-> << RequestRedrawAt(now + self.delay - Elapsed(st.at, e2)) >>,
      clock |-> e2 ]

\* Tooltip source is hovered, but not for long enough.
NotLongEnough(self, st, cursor_position, now, e2) ==
    [ state |-> Hovered(cursor_position, st.at),
      calls |-> << RequestRedrawAt(now + self.delay - Elapsed(st.at, e2)) >>,
      clock |-> e2 ]

\* FollowingCursor, without the assignment of the new cursor position.
FollowingCursorStale(st, cursor_position, e1) ==
    [ state |-> st,
      calls |-> << RequestRedraw >>,
      clock |-> e1 ]

\* FollowingCursor, with `at` set to the clock just read.
FollowingCursorResetsAt(st, cursor_position, e1) ==
    [ state |-> Hovered(cursor_position, e1),
      calls |-> << RequestRedraw >>,
      clock |-> e1 ]

\* Tooltip source has been hovered long enough, and is following the cursor.
FollowingCursor(st, cursor_position, e1) ==
    [ state |-> Hovered(cursor_position, st.at),
      calls |-> << RequestRedraw >>,
      clock |-> e1 ]

\* NoChange, with a redraw requested all the same.
NoChangeRedraws(st, t) ==
    [ state |-> st, calls |-> << RequestRedraw >>, clock |-> t ]

\* No change in state.
NoChange(st, t) ==
    [ state |-> st, calls |-> << >>, clock |-> t ]

\* The match of update on (state, cursor_position).
Match(self, st, cursor_position, now, e1, e2) ==
    IF st.tag = "Idle" /\ cursor_position # None THEN
        SourceHovered(self, cursor_position[1], now)
    ELSE IF st.tag = "Hovered" /\ cursor_position = None THEN
        SourceUnhovered(st, now)
    ELSE IF st.tag = "Hovered" /\ Elapsed(st.at, e1) < self.delay THEN
        NotLongEnough(self, st, cursor_position[1], now, e2)
    ELSE IF st.tag = "Hovered" /\ self.position = "FollowCursor" THEN
        FollowingCursor(st, cursor_position[1], e1)
    ELSE IF st.tag = "Hovered" THEN
        NoChange(st, e1)
    ELSE
        NoChange(st, now)

\* update, with the content element updated before the match.
update_content_first(self, st, cursor_position, now, e1, e2) ==
    LET m == Match(self, st, cursor_position, now, e1, e2)
    IN  [ m EXCEPT !.calls = << ContentUpdate >> \o @ ]

\* update: the match, then the update of the content element with the same
\* event, layout, cursor and shell.
update(self, st, cursor_position, now, e1, e2) ==
    LET m == Match(self, st, cursor_position, now, e1, e2)
    IN  [ m EXCEPT !.calls = Append(@, ContentUpdate) ]

\* ------------------------------------------------------------------------
\* Tooltip::overlay
\* ------------------------------------------------------------------------

\* The Overlay built by overlay() from the state and the layout.
NewOverlay(self, scn, cursor_position) ==
    [ kind |-> "tooltip",
      position |-> Point(scn.bounds.x + scn.translation.x,
                         scn.bounds.y + scn.translation.y),
      cursor_position |-> cursor_position,
      content_bounds |-> scn.bounds,
      snap_within_viewport |-> self.snap_within_viewport,
      positioning |-> self.position,
      gap |-> self.gap,
      padding |-> self.padding ]

\* The overlay of the content element, when it has one.
ContentOverlay == [ kind |-> "content" ]

\* Visible, with the overlay built from the deadline on instead of after it.
VisibleFromDeadline(self, st, t) ==
    st.tag = "Hovered" /\ Elapsed(st.at, t) >= self.delay

\* The guard of the match arm of overlay() that builds the tooltip overlay.
Visible(self, st, t) ==
    st.tag = "Hovered" /\ Elapsed(st.at, t) > self.delay

\* overlay, without the test that one of the two overlays is there.
overlay_always_group(self, st, scn, content, t) ==
    LET tip == IF Visible(self, st, t)
               THEN Some(NewOverlay(self, scn, st.cursor_position))
               ELSE None
    IN  Some(content \o tip)

\* overlay, with the tooltip's overlay chained before the content's.
overlay_tooltip_first(self, st, scn, content, t) ==
    LET tip == IF Visible(self, st, t)
               THEN Some(NewOverlay(self, scn, st.cursor_position))
               ELSE None
    IN  IF content # None \/ tip # None
        THEN Some(tip \o content)
        ELSE None

\* overlay(): content is the Option the content element returns, t the clock
\* read by at.elapsed().  The result is the Option of the group's children.
overlay(self, st, scn, content, t) ==
    LET tip == IF Visible(self, st, t)
               THEN Some(NewOverlay(self, scn, st.cursor_position))
               ELSE None
    IN  IF content # None \/ tip # None
        THEN Some(content \o tip)
        ELSE None

\* ------------------------------------------------------------------------
\* Overlay::layout
\* ------------------------------------------------------------------------

\* The sizes the layout of the tooltip element can return under
\* Limits::new(Size::ZERO, max).shrink(Padding::new(padding)), where max is
\* the viewport's size when snapping and infinite otherwise.
Measures(self, bounds, sizes) ==
    { t \in sizes :
        self.snap_within_viewport =>
            /\ t.width <= Max(0, bounds.width - 2 * self.padding)
            /\ t.height <= Max(0, bounds.height - 2 * self.padding) }

\* The offset of the tooltip's content for each Position.
Offset(ov, text_bounds) ==
    LET x_center == ov.position.x
                    + (ov.content_bounds.width - text_bounds.width) \div 2
        y_center == ov.position.y
                    + (ov.content_bounds.height - text_bounds.height) \div 2
    IN  CASE ov.positioning = "Top" ->
                Vector(x_center,
                       ov.position.y - text_bounds.height - ov.gap - ov.padding)
          [] ov.positioning = "Bottom" ->
                Vector(x_center,
                       ov.position.y + ov.content_bounds.height + ov.gap
                       + ov.padding)
          [] ov.positioning = "Left" ->
                Vector(ov.position.x - text_bounds.width - ov.gap - ov.padding,
                       y_center)
          [] ov.positioning = "Right" ->
                Vector(ov.position.x + ov.content_bounds.width + ov.gap
                       + ov.padding,
                       y_center)
          [] ov.positioning = "FollowCursor" ->
                LET translation ==
                        Vector(ov.position.x - ov.content_bounds.x,
                               ov.position.y - ov.content_bounds.y)
                IN  Vector(ov.cursor_position.x + translation.x,
                           ov.cursor_position.y - text_bounds.height
                           + translation.y)

\* Inflate, with the rectangle grown but left at the offset.
InflateInPlace(offset, text_bounds, padding) ==
    Rectangle(offset.x,
              offset.y,
              text_bounds.width + padding * 2,
              text_bounds.height + padding * 2)

\* tooltip_bounds before snapping: the offset moved out by the padding, the
\* measured size grown by twice the padding.
Inflate(offset, text_bounds, padding) ==
    Rectangle(offset.x - padding,
              offset.y - padding,
              text_bounds.width + padding * 2,
              text_bounds.height + padding * 2)

\* SnapAxis, with the size left out where the high edges are aligned.
SnapAxisHighAtLow(lo, len, vlo, vlen) ==
    IF lo < vlo THEN vlo
    ELSE IF vlo + vlen < lo + len THEN vlo + vlen
    ELSE lo

\* One axis of the snapping step: lo and len are the rectangle's, vlo and
\* vlen the viewport's.  The result is the rectangle's new low edge.
SnapAxis(lo, len, vlo, vlen) ==
    IF lo < vlo THEN vlo
    ELSE IF vlo + vlen < lo + len THEN vlo + vlen - len
    ELSE lo

\* Snap, cutting the rectangle down to the viewport's size.
SnapResizes(tooltip_bounds, viewport) ==
    Rectangle(SnapAxis(tooltip_bounds.x, tooltip_bounds.width,
                       viewport.x, viewport.width),
              SnapAxis(tooltip_bounds.y, tooltip_bounds.height,
                       viewport.y, viewport.height),
              Min(tooltip_bounds.width, viewport.width),
              Min(tooltip_bounds.height, viewport.height))

\* The snapping step of layout (`if self.snap_within_viewport { .. }`).
Snap(tooltip_bounds, viewport) ==
    Rectangle(SnapAxis(tooltip_bounds.x, tooltip_bounds.width,
                       viewport.x, viewport.width),
              SnapAxis(tooltip_bounds.y, tooltip_bounds.height,
                       viewport.y, viewport.height),
              tooltip_bounds.width,
              tooltip_bounds.height)

\* layout(): bounds is the size the host lays the overlay out in, text_bounds
\* the measured size of the tooltip element.  The node's bounds are the
\* placement rectangle, its only child the tooltip's layout moved in by the
\* padding.  `unsnapped` keeps tooltip_bounds as it was before snapping.
layout(ov, bounds, text_bounds) ==
    LET viewport == Rectangle(0, 0, bounds.width, bounds.height)
        unsnapped == Inflate(Offset(ov, text_bounds), text_bounds, ov.padding)
        tooltip_bounds == IF ov.snap_within_viewport
                          THEN Snap(unsnapped, viewport)
                          ELSE unsnapped
    IN  [ bounds |-> tooltip_bounds,
          children |-> << Rectangle(ov.padding, ov.padding,
                                    text_bounds.width, text_bounds.height) >>,
          unsnapped |-> unsnapped,
          viewport |-> viewport,
          text_bounds |-> text_bounds ]

\* ------------------------------------------------------------------------
\* The widget in a host that runs passes at any time
\* ------------------------------------------------------------------------

\* Tooltip::new followed by the builder methods.  The placement only matters
\* to update and overlay through FollowCursor, so one fixed placement stands
\* for the other four here; LayoutTooltips below draws all five.
Tooltips ==
    [ position : { "Top", "FollowCursor" },
      gap : { Px(0) },
      padding : { Px(1) },
      snap_within_viewport : BOOLEAN,
      delay : 0 .. MaxDelay ]

\* bounds is layout.bounds() of the content, translation the translation
\* handed to overlay(), viewport the size handed to Overlay::layout and text
\* the measured size of the tooltip element.
Scenes ==
    { [ bounds |-> Rectangle(Px(0), Px(0), Px(2), Px(1)),
        translation |-> Vector(Px(0), Px(0)),
        viewport |-> Size(Px(4), Px(4)),
        text |-> Size(Px(1), Px(1)) ],
      [ bounds |-> Rectangle(Px(2), Px(3), Px(2), Px(1)),
        translation |-> Vector(Px(1), Px(0)),
        viewport |-> Size(Px(8), Px(8)),
        text |-> Size(Px(1), Px(1)) ] }

NotCalled == [ called |-> FALSE, content |-> None, ret |-> None, at |-> 0 ]

\* State::default() in a fresh tree, nothing called yet.
Fresh ==
    /\ clock = 0
    /\ state = Idle
    /\ calls = << >>
    /\ pending = {}
    /\ overlay_out = NotCalled
    /\ node = None
    /\ renode = None
    /\ last = [ updated |-> FALSE, pre |-> Idle, cursor_position |-> None,
                now |-> 0 ]
    /\ hover = [ since |-> None, episode |-> 0, stale |-> FALSE,
                 left |-> None ]
    /\ frames = [ prev |-> None, cur |-> None ]
    /\ pc = "wait"

Init ==
    /\ tooltip \in Tooltips
    /\ scene \in Scenes
    /\ Fresh

\* The clock advances.
Tick ==
    /\ clock < MaxTime
    /\ clock' = clock + 1
    /\ UNCHANGED << tooltip, scene, state, calls, pending, overlay_out, node,
                    renode, last, hover, frames, pc >>

\* A redraw request is due at instant t.
Due(d, t) ==
    IF d.req.call = "request_redraw" THEN TRUE ELSE d.req.at <= t

\* The redraw requests among the calls of an update, with the hover episode
\* that made them.
Requests(cs, ep) ==
    { [ req |-> cs[i], episode |-> ep ] :
        i \in { j \in 1 .. Len(cs) :
                  cs[j].call \in { "request_redraw", "request_redraw_at" } } }

\* The observation history after an update that saw cursor_position at now
\* and honoured the requests in `honoured`.
Observe(cursor_position, now, honoured) ==
    IF cursor_position = None
    THEN [ since |-> None, episode |-> hover.episode, stale |-> FALSE,
           left |-> IF state.tag = "Hovered" THEN Some(state.at)
                    ELSE hover.left ]
    ELSE LET ep == IF hover.since = None THEN hover.episode + 1
                   ELSE hover.episode
         IN  [ since |-> IF hover.since = None THEN Some(now) ELSE hover.since,
               episode |-> ep,
               stale |-> \/ (hover.since # None /\ hover.stale)
                         \/ \E d \in honoured :
                               /\ d.req.call = "request_redraw_at"
                               /\ d.episode < ep,
               left |-> hover.left ]

\* One call of update at the instant `clock`, honouring the given requests.
RunUpdate(cursor_position, e1, e2, honoured) ==
    LET r == update(tooltip, state, cursor_position, clock, e1, e2)
        h == Observe(cursor_position, clock, honoured)
    IN  /\ e1 \in clock .. Min(clock + MaxSkew, MaxTime)
        /\ e2 \in e1 .. Min(clock + MaxSkew, MaxTime)
        /\ h.episode <= MaxEpisodes
        /\ state' = r.state
        /\ calls' = r.calls
        /\ clock' = r.clock
        /\ pending' = (pending \ honoured) \cup Requests(r.calls, h.episode)
        /\ overlay_out' = NotCalled
        /\ node' = None
        /\ renode' = None
        /\ last' = [ updated |-> TRUE, pre |-> state,
                     cursor_position |-> cursor_position, now |-> clock ]
        /\ hover' = h
        /\ frames' = IF cursor_position = None
                     THEN [ prev |-> None, cur |-> None ]
                     ELSE [ prev |-> frames.cur, cur |-> None ]
        /\ UNCHANGED << tooltip, scene >>

\* update, called for any event at any time.
Update ==
    \E cursor_position \in { None } \cup { Some(p) : p \in PointsOver(scene.bounds) } :
      \E e1, e2 \in clock .. MaxTime :
        /\ RunUpdate(cursor_position, e1, e2, { d \in pending : Due(d, clock) })
        /\ UNCHANGED pc

\* One call of overlay at the instant `clock`.
RunOverlay(content) ==
    /\ overlay_out' = [ called |-> TRUE,
                        content |-> content,
                        ret |-> overlay(tooltip, state, scene, content, clock),
                        at |-> clock ]
    /\ node' = None
    /\ renode' = None
    /\ UNCHANGED << clock, tooltip, scene, state, calls, pending, last, hover,
                    frames >>

\* overlay, called at any time.
Overlay ==
    \E content \in { None, Some(ContentOverlay) } :
        /\ RunOverlay(content)
        /\ UNCHANGED pc

\* The tooltip overlay in what overlay() returned, if there is one.
TooltipOf(out) ==
    IF out.ret = None THEN None
    ELSE SelectSeq(out.ret[1], LAMBDA e : e.kind = "tooltip")

\* The host lays out the tooltip overlay that overlay() returned.
Layout ==
    /\ TooltipOf(overlay_out) # None
    /\ node = None
    /\ LET n == layout(TooltipOf(overlay_out)[1], scene.viewport, scene.text)
       IN  /\ node' = Some(n)
           /\ frames' = [ frames EXCEPT
                            !.cur = Some([ cursor_position |-> last.cursor_position[1],
                                           node |-> n ]) ]
    /\ UNCHANGED << clock, tooltip, scene, state, calls, pending, overlay_out,
                    renode, last, hover, pc >>

Next == Tick \/ Update \/ Overlay \/ Layout

Spec == Init /\ [][Next]_vars

\* ------------------------------------------------------------------------
\* The widget in a host that runs a pass only to honour a redraw request
\* ------------------------------------------------------------------------

\* The pointer enters the source: the one input event, handled by a pass.
PointerEnters ==
    /\ pc = "wait"
    /\ ~ last.updated
    /\ \E p \in PointsOver(scene.bounds) :
         \E e1, e2 \in clock .. MaxTime :
            RunUpdate(Some(p), e1, e2, {})
    /\ pc' = "overlay"

\* The host honours one due redraw request with a pass; the pointer has not
\* moved.
HostUpdate ==
    /\ pc = "wait"
    /\ last.updated
    /\ \E d \in pending :
         /\ Due(d, clock)
         /\ \E e1, e2 \in clock .. MaxTime :
              RunUpdate(last.cursor_position, e1, e2, { d })
    /\ pc' = "overlay"

\* The pass goes on to build the overlays.
HostOverlay ==
    /\ pc = "overlay"
    /\ \E content \in { None, Some(ContentOverlay) } : RunOverlay(content)
    /\ pc' = "wait"

HostNext == PointerEnters \/ HostUpdate \/ HostOverlay \/ Tick

HostSpec == Init /\ [][HostNext]_vars

\* ------------------------------------------------------------------------
\* Overlay::layout on its own
\* ------------------------------------------------------------------------

MaxGap == 1

MaxPad == 1

LayoutTooltips ==
    [ position : Position,
      gap : { Px(g) : g \in 0 .. MaxGap },
      padding : { Px(q) : q \in 0 .. MaxPad },
      snap_within_viewport : BOOLEAN,
      delay : { 0 } ]

LayoutSizes == { Size(Px(w), Px(h)) : w, h \in { 0, 1, 3 } }

LayoutScenes ==
    [ bounds : { Rectangle(Px(a), Px(b), Px(w), Px(1)) :
                    a, b \in { 0, 2 }, w \in { 1, 2 } },
      translation : { Vector(Px(0), Px(0)), Vector(Px(1), Px(1)) },
      viewport : { Size(Px(w), Px(h)) : w, h \in { 1, 4 } },
      text : LayoutSizes ]

\* The literal case: viewport 800 x 600, placement Top, source bounds
\* {10, 5, 50, 20}, tooltip size 200 x 30, gap 0, padding 5.
LiteralTooltip ==
    [ position |-> "Top", gap |-> Px(0), padding |-> Px(5),
      snap_within_viewport |-> TRUE, delay |-> 0 ]

LiteralScene ==
    [ bounds |-> Rectangle(Px(10), Px(5), Px(50), Px(20)),
      translation |-> Vector(Px(0), Px(0)),
      viewport |-> Size(Px(800), Px(600)),
      text |-> Size(Px(200), Px(30)) ]

\* A hover that has outlasted the delay: the pointer was seen at p over the
\* source at instant 0, and the clock has moved on.
HoveredSince0(p) ==
    LET r == update(tooltip, Idle, Some(p), 0, 0, 0)
    IN  /\ clock = tooltip.delay + 1
        /\ state = r.state
        /\ calls = r.calls
        /\ pending = Requests(r.calls, 1)
        /\ overlay_out = NotCalled
        /\ node = None
        /\ renode = None
        /\ last = [ updated |-> TRUE, pre |-> Idle,
                    cursor_position |-> Some(p), now |-> 0 ]
        /\ hover = [ since |-> Some(0), episode |-> 1, stale |-> FALSE,
                     left |-> None ]
        /\ frames = [ prev |-> None, cur |-> None ]
        /\ pc = "wait"

LayoutInit ==
    /\ \/ /\ tooltip \in LayoutTooltips
          /\ scene \in LayoutScenes
          /\ scene.text \in Measures(tooltip, scene.viewport, LayoutSizes)
          /\ \E p \in PointsOver(scene.bounds) : HoveredSince0(p)
       \/ /\ tooltip = LiteralTooltip
          /\ scene = LiteralScene
          /\ HoveredSince0(Point(scene.bounds.x, scene.bounds.y))

\* overlay, called once.
OverlayOnce ==
    /\ ~ overlay_out.called
    /\ Overlay

\* The snapping step of layout, applied once more to the node's bounds.
Resnap ==
    /\ node # None
    /\ renode = None
    /\ TooltipOf(overlay_out)[1].snap_within_viewport
    /\ renode' = Some(Snap(node[1].bounds, node[1].viewport))
    /\ UNCHANGED << clock, tooltip, scene, state, calls, pending, overlay_out,
                    node, last, hover, frames, pc >>

LayoutNext == OverlayOnce \/ Layout \/ Resnap

LayoutSpec == LayoutInit /\ [][LayoutNext]_vars

\* ------------------------------------------------------------------------
\* Properties of the hover timing
\* ------------------------------------------------------------------------

\* overlay() was called after the last update and built the tooltip overlay.
Shown == overlay_out.called /\ TooltipOf(overlay_out) # None

\* overlay() was called after the last update and built no tooltip overlay.
Hidden == overlay_out.called /\ TooltipOf(overlay_out) = None

\* The calls of the last update include c.
Called(c) == \E i \in 1 .. Len(calls) : calls[i] = c

ExitResetsTiming ==
    ( /\ overlay_out.called
      /\ hover.episode >= 2
      /\ hover.since # None
      /\ overlay_out.at <= hover.since[1] + tooltip.delay ) => Hidden

\* C2 witness: in the second hover, a pass honoured a wake-up requested by
\* the first hover and overlay() was called before the new delay ran out.
ExitResetsTimingWitness ==
    /\ hover.episode >= 2
    /\ hover.since # None
    /\ hover.stale
    /\ tooltip.delay >= 1
    /\ Hidden
    /\ overlay_out.at <= hover.since[1] + tooltip.delay

\* C3: in a host that runs passes only for the pointer's entry and for the
\* redraw requests, each at its instant or later, the tooltip overlay has
\* been built by the time no request is left to honour.
HonouredRequestsSuffice ==
    (pc = "wait" /\ hover.since # None /\ pending = {}) => Shown

\* C4: with a delay of 0, overlay() builds the tooltip overlay whenever the
\* updates since the start of the hover have seen the pointer over the
\* source, the pass of the first of them included.
ZeroDelayShowsImmediately ==
    (tooltip.delay = 0 /\ overlay_out.called /\ hover.since # None) => Shown

\* C5: in state Idle overlay() builds no tooltip overlay, whatever the clock
\* and the delay; it returns None unless the content has an overlay, and
\* then the group holds that overlay alone.
NoPointerNoOverlay ==
    (state.tag = "Idle" /\ overlay_out.called) =>
        /\ Hidden
        /\ overlay_out.ret = IF overlay_out.content = None THEN None
                             ELSE Some(overlay_out.content)

\* C5 witness: overlay() is called in state Idle with a delay of 0, after a
\* hover has ended and the clock has moved on.
NoPointerNoOverlayWitness ==
    /\ state.tag = "Idle"
    /\ overlay_out.called
    /\ tooltip.delay = 0
    /\ hover.episode >= 1
    /\ overlay_out.at > last.now

\* C6: an update that runs in state Hovered and sees no pointer leaves the
\* state Idle, invalidates the layout and requests a redraw at once, so
\* that overlay() in that pass builds no tooltip overlay; and any tooltip
\* overlay built later belongs to a hover that has outlasted the delay.
ExitHidesImmediately ==
    /\ (last.updated /\ last.pre.tag = "Hovered" /\ last.cursor_position = None) =>
          /\ state = Idle
          /\ Called(InvalidateLayout)
          /\ Called(RequestRedraw)
          /\ overlay_out.called => Hidden
    /\ Shown =>
          /\ hover.since # None
          /\ overlay_out.at - hover.since[1] > tooltip.delay

\* C6 witness: the pointer leaves while the tooltip was due to be visible,
\* and overlay() is called in the pass of the exit.
ExitHidesImmediatelyWitness ==
    /\ last.updated
    /\ last.pre.tag = "Hovered"
    /\ last.cursor_position = None
    /\ last.now - last.pre.at > tooltip.delay
    /\ overlay_out.called
    /\ overlay_out.at = last.now

\* ------------------------------------------------------------------------
\* Properties of the placement
\* ------------------------------------------------------------------------

\* The rectangle lies inside the viewport on the x axis, on the y axis.
InsideX(r, v) == v.x <= r.x /\ r.x + r.width <= v.x + v.width

InsideY(r, v) == v.y <= r.y /\ r.y + r.height <= v.y + v.height

\* C7: when snapping, a placement rectangle no larger than the viewport on
\* an axis lies inside the viewport on that axis, in every placement mode;
\* and a rectangle whose low edge was before the viewport's low edge is
\* placed at the viewport's low edge.
SnapKeepsInside ==
    (node # None /\ tooltip.snap_within_viewport) =>
        LET r == node[1].bounds
            u == node[1].unsnapped
            v == node[1].viewport
        IN  /\ r.width <= v.width => InsideX(r, v)
            /\ r.height <= v.height => InsideY(r, v)
            /\ u.x < v.x => r.x = v.x
            /\ u.y < v.y => r.y = v.y

\* C7 witness: the literal case, placed at y = 0.
SnapKeepsInsideWitness ==
    /\ node # None
    /\ tooltip = LiteralTooltip
    /\ scene = LiteralScene
    /\ node[1].unsnapped.y < 0
    /\ node[1].bounds.y = 0

\* C8: the snapping step applied to a snapped rectangle gives that same
\* rectangle.
SnapIdempotent ==
    renode # None => renode[1] = node[1].bounds

\* C9: the placement rectangle has the measured size of the tooltip plus
\* twice the padding in width and in height, snapped or not.
InflateLaw ==
    node # None =>
        /\ node[1].bounds.width = scene.text.width + 2 * tooltip.padding
        /\ node[1].bounds.height = scene.text.height + 2 * tooltip.padding
        /\ node[1].bounds.width = node[1].unsnapped.width
        /\ node[1].bounds.height = node[1].unsnapped.height

\* C9 witness: a padded rectangle that snapping has moved.
InflateLawWitness ==
    /\ node # None
    /\ tooltip.padding > 0
    /\ tooltip.snap_within_viewport
    /\ node[1].bounds # node[1].unsnapped

\* Two frames in a row of a hover in mode FollowCursor, laid out for two
\* distinct pointer positions.
TwoFollowFrames ==
    /\ tooltip.position = "FollowCursor"
    /\ frames.prev # None
    /\ frames.cur # None
    /\ frames.prev[1].cursor_position # frames.cur[1].cursor_position

\* The rectangle's position minus the pointer's position.
PointerOffset(f) ==
    Vector(f.node.bounds.x - f.cursor_position.x,
           f.node.bounds.y - f.cursor_position.y)

\* The two frames have distinct rectangles at the same offset from the
\* pointer.
Tracks ==
    /\ frames.prev[1].node.bounds # frames.cur[1].node.bounds
    /\ PointerOffset(frames.prev[1]) = PointerOffset(frames.cur[1])

\* Snapping has moved neither of the two rectangles.
NeitherSnapped ==
    /\ frames.prev[1].node.bounds = frames.prev[1].node.unsnapped
    /\ frames.cur[1].node.bounds = frames.cur[1].node.unsnapped

\* C10 as stated: in mode FollowCursor two frames in a row with distinct
\* pointer positions have distinct rectangles at the same offset from the
\* pointer.
FollowCursorTracks ==
    TwoFollowFrames => Tracks

\* C10 amended: the same, for frames whose rectangles snapping has not moved.
FollowCursorTracksUnsnapped ==
    (TwoFollowFrames /\ NeitherSnapped) => Tracks

\* C10 witness: two such frames with snapping on, neither rectangle moved.
FollowCursorTracksWitness ==
    /\ TwoFollowFrames
    /\ NeitherSnapped
    /\ tooltip.snap_within_viewport
    /\ hover.since # None

\* ------------------------------------------------------------------------
\* Properties of the overlay group and of the calls of update
\* ------------------------------------------------------------------------

\* The hover seen by the updates has outlasted the delay at the instant of
\* the last call of overlay().
Outlasted ==
    hover.since # None /\ overlay_out.at - hover.since[1] > tooltip.delay

\* C11: overlay() returns None exactly when the content has no overlay and
\* the tooltip is not visible; otherwise it returns one group, the content's
\* overlay first if there is one and the tooltip's overlay last if there is
\* one.
OverlayComposition ==
    overlay_out.called =>
        /\ overlay_out.ret = None <=> (overlay_out.content = None /\ ~ Outlasted)
        /\ overlay_out.ret # None =>
             LET group == overlay_out.ret[1]
                 n == (IF overlay_out.content # None THEN 1 ELSE 0)
                      + (IF Outlasted THEN 1 ELSE 0)
             IN  /\ Len(group) = n
                 /\ overlay_out.content # None => group[1] = overlay_out.content[1]
                 /\ Outlasted => group[n].kind = "tooltip"
                 /\ \A i \in 1 .. n - 1 : group[i].kind # "tooltip"

\* C11 witness: the content has an overlay and the tooltip is visible.
OverlayCompositionWitness ==
    /\ overlay_out.called
    /\ overlay_out.content # None
    /\ Outlasted
    /\ Len(overlay_out.ret[1]) = 2

\* The calls of the last update that request a redraw at an instant.
RedrawAts ==
    { calls[i].at : i \in { j \in 1 .. Len(calls) :
                              calls[j].call = "request_redraw_at" } }

\* C12: every redraw the updates of a hover request at an instant names
\* the start of the hover plus the delay, and an update that runs when the
\* delay has run out requests none.
SingleDeadline ==
    (last.updated /\ hover.since # None) =>
        /\ \A i \in RedrawAts : i = hover.since[1] + tooltip.delay
        /\ last.now - hover.since[1] >= tooltip.delay /\ last.pre.tag = "Hovered"
              => RedrawAts = {}

\* C13: an update that runs in state Idle and sees the pointer at p over
\* the source at instant now leaves Hovered{p, now}, invalidates the layout,
\* requests a redraw at now + delay and at no other instant, and requests no
\* redraw at once.
HoverStart ==
    (last.updated /\ last.pre = Idle /\ last.cursor_position # None) =>
        /\ state = Hovered(last.cursor_position[1], last.now)
        /\ Called(InvalidateLayout)
        /\ RedrawAts = { last.now + tooltip.delay }
        /\ ~ Called(RequestRedraw)

\* C13 witness: a hover starts after the clock has moved, with a delay of at
\* least one tick.
HoverStartWitness ==
    /\ last.updated
    /\ last.pre = Idle
    /\ last.cursor_position # None
    /\ last.now >= 1
    /\ tooltip.delay >= 1

\* The last update ran in state Hovered and saw the pointer over the source.
StillHovered ==
    /\ last.updated
    /\ last.pre.tag = "Hovered"
    /\ last.cursor_position # None

\* C14: an update that runs in state Hovered and sees the pointer over the
\* source leaves `at` as it was, before and after the delay and in every
\* mode; the `at` of a new hover is never earlier than the `at` of the
\* hover before it.
StartIsFrozen ==
    /\ StillHovered => (state.tag = "Hovered" /\ state.at = last.pre.at)
    /\ (state.tag = "Hovered" /\ hover.left # None) => state.at >= hover.left[1]

\* C14 witness: in a second hover, in mode FollowCursor, an update after
\* the delay has stored a new cursor position.
StartIsFrozenWitness ==
    /\ StillHovered
    /\ tooltip.position = "FollowCursor"
    /\ last.now - last.pre.at >= tooltip.delay
    /\ last.now > last.pre.at
    /\ state.cursor_position # last.pre.cursor_position
    /\ hover.left # None

\* C15: in modes Top, Bottom, Left and Right an update that runs in state
\* Hovered when the delay has run out and sees the pointer over the source
\* leaves the state as it was, the stored cursor position included, and
\* makes no call on the shell.
StationaryNoOp ==
    ( /\ StillHovered
      /\ tooltip.position # "FollowCursor"
      /\ last.now - last.pre.at >= tooltip.delay ) =>
        /\ state = last.pre
        /\ calls = << ContentUpdate >>

\* C15 witness: such an update, with the pointer at a new position.
StationaryNoOpWitness ==
    /\ StillHovered
    /\ tooltip.position # "FollowCursor"
    /\ last.now - last.pre.at >= tooltip.delay
    /\ tooltip.delay >= 1
    /\ last.cursor_position[1] # last.pre.cursor_position

\* C16: in mode FollowCursor, after an update that saw the pointer over the
\* source the stored cursor position is the one it saw; if it ran in state
\* Hovered when the delay had run out it requested a redraw at once; and a
\* tooltip overlay built afterwards carries that position.
FollowCursorFresh ==
    ( /\ tooltip.position = "FollowCursor"
      /\ last.updated
      /\ last.cursor_position # None ) =>
        /\ state.tag = "Hovered"
        /\ state.cursor_position = last.cursor_position[1]
        /\ (last.pre.tag = "Hovered" /\ last.now - last.pre.at >= tooltip.delay)
              => Called(RequestRedraw)
        /\ Shown => TooltipOf(overlay_out)[1].cursor_position
                        = last.cursor_position[1]

\* C16 witness: the pointer moved before the delay ran out, and the tooltip
\* overlay was built after it.
FollowCursorFreshWitness ==
    /\ tooltip.position = "FollowCursor"
    /\ StillHovered
    /\ last.now - last.pre.at < tooltip.delay
    /\ last.cursor_position[1] # last.pre.cursor_position
    /\ Shown

\* C17: when snapping, a placement rectangle larger than the viewport on an
\* axis has its low edge at the viewport's low edge on that axis.
OversizedPinnedLow ==
    (node # None /\ tooltip.snap_within_viewport) =>
        LET r == node[1].bounds
            v == node[1].viewport
        IN  /\ r.width > v.width => r.x = v.x
            /\ r.height > v.height => r.y = v.y

\* The source's rectangle in the overlay's coordinates: layout.position()
\* plus the translation, with the size of the content's bounds.
Source ==
    Rectangle(scene.bounds.x + scene.translation.x,
              scene.bounds.y + scene.translation.y,
              scene.bounds.width, scene.bounds.height)

\* The rectangle and the source have the same centre on the x axis, on the
\* y axis.
CentredX(r, src) == 2 * r.x + r.width = 2 * src.x + src.width

CentredY(r, src) == 2 * r.y + r.height = 2 * src.y + src.height

\* C18: without snapping, in modes Top, Bottom, Left and Right the rectangle
\* is centred on the source across the axis of placement and its edge
\* facing the source is `gap` away from the source's edge, whatever the
\* padding; in mode FollowCursor the origin of the content is at
\* (cursor.x + translation.x, cursor.y - tooltip.height + translation.y).
PlacementFormulas ==
    (node # None /\ ~ tooltip.snap_within_viewport) =>
        LET r == node[1].bounds
            c == node[1].children[1]
            cursor == last.cursor_position[1]
        IN  /\ tooltip.position = "Top" =>
                 CentredX(r, Source) /\ r.y + r.height = Source.y - tooltip.gap
            /\ tooltip.position = "Bottom" =>
                 CentredX(r, Source)
                 /\ r.y = Source.y + Source.height + tooltip.gap
            /\ tooltip.position = "Left" =>
                 CentredY(r, Source) /\ r.x + r.width = Source.x - tooltip.gap
            /\ tooltip.position = "Right" =>
                 CentredY(r, Source)
                 /\ r.x = Source.x + Source.width + tooltip.gap
            /\ tooltip.position = "FollowCursor" =>
                 /\ r.x + c.x = cursor.x + scene.translation.x
                 /\ r.y + c.y = cursor.y - scene.text.height
                                + scene.translation.y

\* C18 witness: a placement without snapping, with padding, gap and
\* translation, of a tooltip that is wider than the source by an odd number
\* of pixels.
PlacementFormulasWitness ==
    /\ node # None
    /\ ~ tooltip.snap_within_viewport
    /\ tooltip.position = "Top"
    /\ tooltip.padding > 0
    /\ tooltip.gap > 0
    /\ scene.translation.x > 0
    /\ scene.text.width = scene.bounds.width + Px(1)

\* C19: every update calls the update of the content element once, after
\* the calls on the shell that the hover transition makes.
ContentDelegation ==
    last.updated =>
        /\ Len(calls) >= 1
        /\ calls[Len(calls)] = ContentUpdate
        /\ \A i \in 1 .. Len(calls) - 1 : calls[i] # ContentUpdate

\* C19 witness: an update that made calls on the shell before it, here the
\* one that ends a hover.
ContentDelegationWitness ==
    /\ last.updated
    /\ last.pre.tag = "Hovered"
    /\ last.cursor_position = None
    /\ Len(calls) = 3

====
